---- MODULE Spec2Model ----
(***************************************************************************)
(* A model of orderful/api.py: the OrderfulAPI client.  The state is the   *)
(* client object (stream, api key, header mappings, the session's default  *)
(* headers) together with a record of the last invocation: the call, the   *)
(* requests it put on the wire, the response it got and how it ended.      *)
(***************************************************************************)
EXTENDS Integers, Sequences, FiniteSets, TLC

VARIABLES
    stream,             \* self.stream
    orderful_api_key,   \* self.orderful_api_key
    api_headers,        \* self.api_headers
    client_headers,     \* self.client.headers (the session's default headers)
    ctor,               \* history: the arguments __init__ was called with
    call,               \* history: the last public method called, with its arguments
    sent,               \* the requests the last invocation put on the wire, in order
    response,           \* the response the last invocation received
    result,             \* how the last invocation ended: return value or raised error
    converted           \* history: convert_data has been called at least once

vars == <<stream, orderful_api_key, api_headers, client_headers, ctor,
          call, sent, response, result, converted>>

----------------------------------------------------------------------------
(* Python values, tagged with their type, and Python's truth test.         *)

PyBool(b) == [type |-> "bool", val |-> b]
PyInt(n)  == [type |-> "int",  val |-> n]
PyStr(s)  == [type |-> "str",  val |-> s]
PyList(l) == [type |-> "list", val |-> l]
PyDict(d) == [type |-> "dict", val |-> d]
PyBytes(b) == [type |-> "bytes", val |-> b]
PyNone    == [type |-> "none", val |-> "None"]

\* `if limit is not False:` in place of `if limit:`
Truthy_NotFalse(v) == v # PyBool(FALSE)

\* bool(v), as `if v:` evaluates it
Truthy(v) ==
    CASE v.type = "bool" -> v.val
      [] v.type = "int"  -> v.val # 0
      [] v.type = "str"  -> Len(v.val) # 0
      [] v.type = "list" -> Len(v.val) # 0
      [] v.type = "bytes" -> Len(v.val) # 0
      [] v.type = "dict" -> DOMAIN v.val # {}
      [] OTHER           -> FALSE

\* Python's `a and b`: the first operand when it is falsy, else the second
PyAnd(a, b) == IF Truthy(a) THEN b ELSE a

\* a dict, as a function from keys to values
EmptyDict == <<>>
dict_update(d, k, v) == (k :> v) @@ d

----------------------------------------------------------------------------
(* Inputs.                                                                 *)

Streams == {PyStr("LIVE"), PyStr("live"), PyStr("")}
ApiKeys == {PyStr("key-1"), PyStr("")}

BucketIds == {"42"}
TransactionIds == {"tx_7"}
AttachmentIds == {"att_1", "att_2"}
DeliveryIds == {"dlv_3"}
LabelTypes == {"sscc"}
Formats == {PyStr("application/json"), PyStr("application/edi-x12")}
TransactionTypes == {"850_PURCHASE_ORDER", "856_SHIP_NOTICE"}
Message == ("purchaseOrderNumber" :> PyStr("PO-1"))
SenderIsaId == PyStr("SENDER")
ReceiverIsaId == PyStr("RECEIVER")
LabelKwargs == {EmptyDict, ("shipmentId" :> PyStr("S-1"))}

FalsyValues == {PyBool(FALSE), PyInt(0), PyStr(""), PyList(<<>>), PyNone}

\* the response bodies the simulated server answers with
Content1 == "{'id': 'tx_123', 'metadata': {'next': 'c2'}, 'data': [{'id': 'tx_123'}]}"
Content2 == "{'id': 'tx_456', 'metadata': {'next': ''}, 'data': []}"

Responses ==
    { [status_code |-> 200, content |-> Content1],
      [status_code |-> 201, content |-> Content2],
      [status_code |-> 404, content |-> Content1],
      [status_code |-> 503, content |-> Content2] }

NoResponse == [status_code |-> 0, content |-> ""]

----------------------------------------------------------------------------
(* The HTTP library as the client uses it.                                 *)

\* response.json(): the parsed body
json(resp) ==
    IF resp.content = Content1
    THEN [id |-> PyStr("tx_123"),
          metadata |-> PyDict(("next" :> PyStr("c2"))),
          data |-> PyList(<<PyDict(("id" :> PyStr("tx_123")))>>)]
    ELSE [id |-> PyStr("tx_456"),
          metadata |-> PyDict(("next" :> PyStr(""))),
          data |-> PyList(<<>>)]

\* response.raise_for_status(): TRUE when it raises (a 4xx or 5xx status)
raise_for_status(resp) == resp.status_code >= 400 /\ resp.status_code < 600

\* header names are case-insensitive: the canonical (lower-case) form
lower(name) ==
    CASE name = "Content-Type" -> "content-type"
      [] name = "Accept"       -> "accept"
      [] OTHER                 -> name

\* the headers of one request: the session's defaults overridden by the
\* per-request headers, names compared case-insensitively
merge_headers(request_headers, session_headers) ==
    LET over == {lower(k) : k \in DOMAIN request_headers}
        pick(n) == CHOOSE k \in DOMAIN request_headers : lower(k) = n
    IN  [n \in over \cup DOMAIN session_headers |->
            IF n \in over THEN request_headers[pick(n)] ELSE session_headers[n]]

Request(method, url, params, has_json, body, headers) ==
    [method |-> method, url |-> url, params |-> params,
     has_json |-> has_json, json |-> body,
     headers |-> merge_headers(headers, client_headers)]

\* a transport that repeats a request the server answered with a failure
session_send_Retry(req, resp) ==
    IF resp.status_code >= 400 THEN <<req, req>> ELSE <<req>>

\* self.client.get / self.client.post: what the call puts on the wire
session_send(req, resp) == <<req>>

client_get(url, params, resp) ==
    session_send(Request("GET", url, params, FALSE, EmptyDict, EmptyDict), resp)

client_post(url, has_json, body, headers, resp) ==
    session_send(Request("POST", url, EmptyDict, has_json, body, headers), resp)

----------------------------------------------------------------------------
(* The client.                                                             *)

get_base_url == "https://api.orderful.com/v3"

Init ==
    /\ \E s \in Streams, k \in ApiKeys :
          /\ ctor = [stream |-> s, orderful_api_key |-> k]
          /\ stream = s
          /\ orderful_api_key = k
          /\ api_headers = ("accept" :> PyStr("application/json"))
                           @@ ("content-type" :> PyStr("application/json"))
                           @@ ("orderful-api-key" :> k)
    /\ client_headers = api_headers
    /\ call = [op |-> "__init__", args |-> EmptyDict]
    /\ sent = <<>>
    /\ response = NoResponse
    /\ result = [kind |-> "none", value |-> PyNone, evaluated |-> {}]
    /\ converted = FALSE

Return(value, evaluated) ==
    [kind |-> "return", value |-> value, evaluated |-> evaluated]
Raise(resp) ==
    [kind |-> "raise", value |-> resp, evaluated |-> {}]

\* a method that evaluates its return expression before it checks the status
Respond_ParseFirst(resp, ret) ==
    IF raise_for_status(resp)
    THEN [kind |-> "raise", value |-> resp, evaluated |-> ret.evaluated]
    ELSE ret

\* response.raise_for_status() followed by the method's return expression
Respond(resp, ret) == IF raise_for_status(resp) THEN Raise(resp) ELSE ret

\* a method that stores the stream it last used
SelfAfter_Assign(op) ==
    [stream |-> IF op = "create_transaction" THEN PyStr("LIVE") ELSE stream,
     orderful_api_key |-> orderful_api_key,
     api_headers |-> api_headers]

\* the attributes of self after a method ran: no method assigns to them
SelfAfter(op) ==
    [stream |-> stream,
     orderful_api_key |-> orderful_api_key,
     api_headers |-> api_headers]

\* the part every method has in common: the record of the invocation
Invoke(op, args, reqs, resp, res) ==
    /\ call' = [op |-> op, args |-> args]
    /\ sent' = reqs
    /\ response' = resp
    /\ result' = res
    /\ stream' = SelfAfter(op).stream
    /\ orderful_api_key' = SelfAfter(op).orderful_api_key
    /\ api_headers' = SelfAfter(op).api_headers
    /\ UNCHANGED ctor

is_enabled ==
    /\ Invoke("is_enabled", EmptyDict, <<>>, NoResponse,
              Return(PyAnd(stream, orderful_api_key), {}))
    /\ UNCHANGED <<client_headers, converted>>

is_live_stream ==
    /\ Invoke("is_live_stream", EmptyDict, <<>>, NoResponse,
              Return(PyBool(stream = PyStr("LIVE")), {}))
    /\ UNCHANGED <<client_headers, converted>>

----------------------------------------------------------------------------
(* Optional arguments: every optional argument defaults to False.  A call  *)
(* either gives one falsy value to all of them, or gives truthy values to  *)
(* the arguments of one choice and leaves the others at the default.       *)

Choices(A) == {{}} \cup {{a} : a \in A} \cup {A}

ListFilters == {"business_numbers", "transaction_type", "validation_status",
                "delivery_status", "acknowledgment_status",
                "sender_isa_id", "receiver_isa_id", "errors"}

\* a truthy value of the documented type of argument a
SampleValue(a) ==
    CASE a = "limit"           -> PyInt(30)
      [] a = "auto_send"       -> PyBool(TRUE)
      [] a = "include_message" -> PyBool(TRUE)
      [] a \in ListFilters     -> PyList(<<a>>)
      [] OTHER                 -> PyStr("value of " \o a)

Kwargs(A, S, f) == [a \in A |-> IF a \in S THEN SampleValue(a) ELSE f]

KwargsOf(A) ==
    {Kwargs(A, {}, f) : f \in FalsyValues}
    \cup {Kwargs(A, S, PyBool(FALSE)) : S \in Choices(A)}

\* `if arg: params.update(key=arg)` for each <<arg, key>> of pairs, in order
RECURSIVE BuildParams(_, _, _)
BuildParams(pairs, kwargs, params) ==
    IF pairs = <<>> THEN params
    ELSE LET arg == Head(pairs)[1]
             key == Head(pairs)[2]
         IN  BuildParams(Tail(pairs), kwargs,
                         IF Truthy(kwargs[arg])
                         THEN dict_update(params, key, kwargs[arg])
                         ELSE params)

Args(pairs) == {pairs[i][1] : i \in DOMAIN pairs}

----------------------------------------------------------------------------
(* The request-issuing methods.                                            *)

get_transactions_from_poller_bucket ==
    \E bucket_id \in BucketIds, limit \in FalsyValues \cup {SampleValue("limit")},
       resp \in Responses :
        LET url == get_base_url \o "/polling-buckets/" \o bucket_id
            params == BuildParams(<< <<"limit", "limit">> >>,
                                  ("limit" :> limit), EmptyDict)
        IN  /\ Invoke("get_transactions_from_poller_bucket",
                      ("bucket_id" :> PyStr(bucket_id)) @@ ("limit" :> limit),
                      client_get(url, params, resp), resp,
                      Respond(resp, Return(json(resp), {"json"})))
            /\ UNCHANGED <<client_headers, converted>>

list_relationships_keys ==
    << <<"auto_send", "auto_send">>, <<"limit", "limit">>,
       <<"prev_cursor", "prev_cursor">>, <<"next_cursor", "next_cursor">> >>

list_relationships ==
    \E bucket_id \in BucketIds, kwargs \in KwargsOf(Args(list_relationships_keys)),
       resp \in Responses :
        LET url == get_base_url \o "/relationships/" \o bucket_id
            params == BuildParams(list_relationships_keys, kwargs, EmptyDict)
        IN  /\ Invoke("list_relationships",
                      ("bucket_id" :> PyStr(bucket_id)) @@ kwargs,
                      client_get(url, params, resp), resp,
                      Respond(resp, Return(json(resp), {"json"})))
            /\ UNCHANGED <<client_headers, converted>>

get_organization_details ==
    \E resp \in Responses :
        LET url == get_base_url \o "/organizations/me"
        IN  /\ Invoke("get_organization_details", EmptyDict,
                      client_get(url, EmptyDict, resp), resp,
                      Respond(resp, Return(json(resp), {"json"})))
            /\ UNCHANGED <<client_headers, converted>>

\* a convert_data that installs its headers on the session
session_after_convert_Update(headers) == merge_headers(headers, client_headers)

\* the session's default headers after convert_data: the per-call headers
\* are passed to the one request and never stored
session_after_convert(headers) == client_headers

convert_data ==
    \E origin_content \in Formats, destination_content \in Formats,
       resp \in Responses :
        LET url == get_base_url \o "/convert"
            headers == ("Content-Type" :> origin_content)
                       @@ ("Accept" :> destination_content)
        IN  /\ Invoke("convert_data",
                      ("origin_content" :> origin_content)
                      @@ ("destination_content" :> destination_content),
                      client_post(url, FALSE, EmptyDict, headers, resp), resp,
                      Respond(resp, Return(json(resp), {"json"})))
            /\ client_headers' = session_after_convert(headers)
            /\ converted' = TRUE

\* a payload that always names the live stream
create_transaction_payload_Live(orderful_type, message, sender_isa_id, receiver_isa_id) ==
    ("type" :> ("name" :> PyStr(orderful_type)))
    @@ ("stream" :> PyStr("LIVE"))
    @@ ("message" :> message)
    @@ ("sender" :> ("isaId" :> sender_isa_id))
    @@ ("receiver" :> ("isaId" :> receiver_isa_id))

create_transaction_payload(orderful_type, message, sender_isa_id, receiver_isa_id) ==
    ("type" :> ("name" :> PyStr(orderful_type)))
    @@ ("stream" :> stream)
    @@ ("message" :> message)
    @@ ("sender" :> ("isaId" :> sender_isa_id))
    @@ ("receiver" :> ("isaId" :> receiver_isa_id))

create_transaction ==
    \E orderful_type \in TransactionTypes, resp \in Responses :
        LET url == get_base_url \o "/transactions"
            payload == create_transaction_payload(orderful_type, Message,
                                                  SenderIsaId, ReceiverIsaId)
        IN  /\ Invoke("create_transaction",
                      ("orderful_type" :> PyStr(orderful_type))
                      @@ ("message" :> Message)
                      @@ ("sender_isa_id" :> SenderIsaId)
                      @@ ("receiver_isa_id" :> ReceiverIsaId),
                      client_post(url, TRUE, payload, EmptyDict, resp), resp,
                      Respond(resp, Return(json(resp).id, {"json", "id"})))
            /\ UNCHANGED <<client_headers, converted>>

\* a table that leaves one argument name untranslated
list_transactions_keys_Snake ==
    << <<"prev_cursor", "prevCursor">>, <<"next_cursor", "nextCursor">>,
       <<"created_at", "createdAt">>,
       <<"business_numbers", "businessNumbers">>,
       <<"transaction_type", "transactionType">>,
       <<"validation_status", "validationStatus">>,
       <<"delivery_status", "deliveryStatus">>,
       <<"acknowledgment_status", "acknowledgmentStatus">>,
       <<"sender_isa_id", "sender_isa_id">>,
       <<"receiver_isa_id", "receiverIsaId">>,
       <<"reference_identifier", "referenceIdentifier">>,
       <<"sender_interchange_reference_identifier", "senderInterchangeReferenceIdentifier">>,
       <<"sender_group_reference_identifier", "senderGroupReferenceIdentifier">>,
       <<"sender_transaction_reference_identifier", "senderTransactionReferenceIdentifier">>,
       <<"receiver_interchange_reference_identifier", "receiverInterchangeReferenceIdentifier">>,
       <<"receiver_group_reference_identifier", "receiverGroupReferenceIdentifier">>,
       <<"receiver_transaction_reference_identifier", "receiverTransactionReferenceIdentifier">> >>

\* the <<argument, query key>> pairs of list_transactions, in source order
list_transactions_keys ==
    << <<"prev_cursor", "prevCursor">>, <<"next_cursor", "nextCursor">>,
       <<"created_at", "createdAt">>,
       <<"business_numbers", "businessNumbers">>,
       <<"transaction_type", "transactionType">>,
       <<"validation_status", "validationStatus">>,
       <<"delivery_status", "deliveryStatus">>,
       <<"acknowledgment_status", "acknowledgmentStatus">>,
       <<"sender_isa_id", "senderIsaId">>,
       <<"receiver_isa_id", "receiverIsaId">>,
       <<"reference_identifier", "referenceIdentifier">>,
       <<"sender_interchange_reference_identifier", "senderInterchangeReferenceIdentifier">>,
       <<"sender_group_reference_identifier", "senderGroupReferenceIdentifier">>,
       <<"sender_transaction_reference_identifier", "senderTransactionReferenceIdentifier">>,
       <<"receiver_interchange_reference_identifier", "receiverInterchangeReferenceIdentifier">>,
       <<"receiver_group_reference_identifier", "receiverGroupReferenceIdentifier">>,
       <<"receiver_transaction_reference_identifier", "receiverTransactionReferenceIdentifier">> >>

\* a return that puts the data first
list_transactions_return_Swapped(data) == <<data.data, data.metadata>>

list_transactions_return(data) == <<data.metadata, data.data>>

list_transactions ==
    \E kwargs \in KwargsOf(Args(list_transactions_keys)), resp \in Responses :
        LET params == BuildParams(list_transactions_keys, kwargs, EmptyDict)
            url == get_base_url \o "/transactions"
        IN  /\ Invoke("list_transactions", kwargs,
                      client_get(url, params, resp), resp,
                      Respond(resp, Return(list_transactions_return(json(resp)),
                                           {"json", "metadata", "data"})))
            /\ UNCHANGED <<client_headers, converted>>

get_transaction ==
    \E transaction_id \in TransactionIds,
       include_message \in FalsyValues \cup {SampleValue("include_message"), PyStr("yes")},
       resp \in Responses :
        LET url == get_base_url \o "/transactions/" \o transaction_id
            params == IF Truthy(include_message)
                      THEN dict_update(EmptyDict, "expand", PyStr("message"))
                      ELSE EmptyDict
        IN  /\ Invoke("get_transaction",
                      ("transaction_id" :> PyStr(transaction_id))
                      @@ ("include_message" :> include_message),
                      client_get(url, params, resp), resp,
                      Respond(resp, Return(json(resp), {"json"})))
            /\ UNCHANGED <<client_headers, converted>>

get_transaction_message ==
    \E transaction_id \in TransactionIds, resp \in Responses :
        LET url == get_base_url \o "/transactions/" \o transaction_id \o "/message"
        IN  /\ Invoke("get_transaction_message",
                      ("transaction_id" :> PyStr(transaction_id)),
                      client_get(url, EmptyDict, resp), resp,
                      Respond(resp, Return(json(resp), {"json"})))
            /\ UNCHANGED <<client_headers, converted>>

create_acknowledgment ==
    \E transaction_id \in TransactionIds, errors \in FalsyValues \cup {SampleValue("errors")},
       resp \in Responses :
        LET url == get_base_url \o "/transactions/" \o transaction_id
                   \o "/acknowledgments"
            status == PyStr("ACCEPTED")
            payload == BuildParams(<< <<"errors", "errors">> >>,
                                   ("errors" :> errors), ("status" :> status))
        IN  /\ Invoke("create_acknowledgment",
                      ("transaction_id" :> PyStr(transaction_id))
                      @@ ("status" :> status) @@ ("errors" :> errors),
                      client_post(url, TRUE, payload, EmptyDict, resp), resp,
                      Respond(resp, Return(PyNone, {})))
            /\ UNCHANGED <<client_headers, converted>>

get_acknowledgment ==
    \E transaction_id \in TransactionIds, resp \in Responses :
        LET url == get_base_url \o "/transactions/" \o transaction_id
                   \o "/acknowledgment"
        IN  /\ Invoke("get_acknowledgment",
                      ("transaction_id" :> PyStr(transaction_id)),
                      client_get(url, EmptyDict, resp), resp,
                      Respond(resp, Return(json(resp), {"json"})))
            /\ UNCHANGED <<client_headers, converted>>

get_attachment ==
    \E attachment_id \in AttachmentIds, resp \in Responses :
        LET url == get_base_url \o "/attachments/" \o attachment_id
        IN  /\ Invoke("get_attachment",
                      ("attachment_id" :> PyStr(attachment_id)),
                      client_get(url, EmptyDict, resp), resp,
                      Respond(resp, Return(json(resp), {"json"})))
            /\ UNCHANGED <<client_headers, converted>>

\* a return that parses the payload
get_attachment_content_return_Parsed(resp) == Return(json(resp), {"json"})

get_attachment_content_return(resp) == Return(PyBytes(resp.content), {"content"})

get_attachment_content ==
    \E attachment_id \in AttachmentIds, resp \in Responses :
        LET url == get_base_url \o "/attachments/" \o attachment_id \o "/content"
        IN  /\ Invoke("get_attachment_content",
                      ("attachment_id" :> PyStr(attachment_id)),
                      client_get(url, EmptyDict, resp), resp,
                      Respond(resp, get_attachment_content_return(resp)))
            /\ UNCHANGED <<client_headers, converted>>

approve_delivery ==
    \E delivery_id \in DeliveryIds, note \in FalsyValues \cup {SampleValue("note")},
       resp \in Responses :
        LET url == get_base_url \o "/deliveries/" \o delivery_id \o "/approve"
            payload == BuildParams(<< <<"note", "note">> >>,
                                   ("note" :> note), EmptyDict)
        IN  /\ Invoke("approve_delivery",
                      ("delivery_id" :> PyStr(delivery_id)) @@ ("note" :> note),
                      client_post(url, TRUE, payload, EmptyDict, resp), resp,
                      Respond(resp, Return(PyNone, {})))
            /\ UNCHANGED <<client_headers, converted>>

fail_delivery ==
    \E delivery_id \in DeliveryIds, note \in FalsyValues \cup {SampleValue("note")},
       resp \in Responses :
        LET url == get_base_url \o "/deliveries/" \o delivery_id \o "/fail"
            payload == BuildParams(<< <<"note", "note">> >>,
                                   ("note" :> note), EmptyDict)
        IN  /\ Invoke("fail_delivery",
                      ("delivery_id" :> PyStr(delivery_id)) @@ ("note" :> note),
                      client_post(url, TRUE, payload, EmptyDict, resp), resp,
                      Respond(resp, Return(PyNone, {})))
            /\ UNCHANGED <<client_headers, converted>>

get_delivery ==
    \E delivery_id \in DeliveryIds, resp \in Responses :
        LET url == get_base_url \o "/deliveries/" \o delivery_id
        IN  /\ Invoke("get_delivery",
                      ("delivery_id" :> PyStr(delivery_id)),
                      client_get(url, EmptyDict, resp), resp,
                      Respond(resp, Return(json(resp), {"json"})))
            /\ UNCHANGED <<client_headers, converted>>

generate_label ==
    \E label_type \in LabelTypes, kwargs \in LabelKwargs, resp \in Responses :
        LET url == get_base_url \o "/labels/" \o label_type
        IN  /\ Invoke("generate_label",
                      ("label_type" :> PyStr(label_type)) @@ ("kwargs" :> kwargs),
                      client_post(url, TRUE, kwargs, EmptyDict, resp), resp,
                      Respond(resp, Return(json(resp), {"json"})))
            /\ UNCHANGED <<client_headers, converted>>

Next ==
    \/ is_enabled
    \/ is_live_stream
    \/ get_transactions_from_poller_bucket
    \/ list_relationships
    \/ get_organization_details
    \/ convert_data
    \/ create_transaction
    \/ list_transactions
    \/ get_transaction
    \/ get_transaction_message
    \/ create_acknowledgment
    \/ get_acknowledgment
    \/ get_attachment
    \/ get_attachment_content
    \/ approve_delivery
    \/ fail_delivery
    \/ get_delivery
    \/ generate_label

Spec == Init /\ [][Next]_vars

----------------------------------------------------------------------------
(* Vocabulary of the properties.                                           *)

RequestOps ==
    {"get_transactions_from_poller_bucket", "list_relationships",
     "get_organization_details", "convert_data", "create_transaction",
     "list_transactions", "get_transaction", "get_transaction_message",
     "create_acknowledgment", "get_acknowledgment", "get_attachment",
     "get_attachment_content", "approve_delivery", "fail_delivery",
     "get_delivery", "generate_label"}

Called(op) == call.op = op
Failure == response.status_code \in 400..599
Success == call.op \in RequestOps /\ ~Failure

\* the falsy values the parameter-inclusion policy names
IsFalsy(v) == v \in {PyBool(FALSE), PyInt(0), PyStr(""), PyList(<<>>), PyNone}

BaseUrl == "https://api.orderful.com/v3"
JsonHeaders(key) ==
    [n \in {"accept", "content-type", "orderful-api-key"} |->
        IF n = "orderful-api-key" THEN key ELSE PyStr("application/json")]

\* snake_case to camelCase, character by character
Upper(c) ==
    CASE c = "a" -> "A" [] c = "b" -> "B" [] c = "c" -> "C" [] c = "d" -> "D"
      [] c = "e" -> "E" [] c = "f" -> "F" [] c = "g" -> "G" [] c = "h" -> "H"
      [] c = "i" -> "I" [] c = "j" -> "J" [] c = "k" -> "K" [] c = "l" -> "L"
      [] c = "m" -> "M" [] c = "n" -> "N" [] c = "o" -> "O" [] c = "p" -> "P"
      [] c = "q" -> "Q" [] c = "r" -> "R" [] c = "s" -> "S" [] c = "t" -> "T"
      [] c = "u" -> "U" [] c = "v" -> "V" [] c = "w" -> "W" [] c = "x" -> "X"
      [] c = "y" -> "Y" [] c = "z" -> "Z" [] OTHER -> c

RECURSIVE CamelFrom(_, _, _)
CamelFrom(s, i, up) ==
    IF i > Len(s) THEN ""
    ELSE LET c == SubSeq(s, i, i)
         IN  IF c = "_" THEN CamelFrom(s, i + 1, TRUE)
             ELSE (IF up THEN Upper(c) ELSE c) \o CamelFrom(s, i + 1, FALSE)

CamelCase(s) == CamelFrom(s, 1, FALSE)

\* the documented optional arguments: operation, argument, key, and whether
\* the key travels in the query string or in the JSON body
ListTransactionsFilters ==
    {"prev_cursor", "next_cursor", "created_at", "business_numbers",
     "transaction_type", "validation_status", "delivery_status",
     "acknowledgment_status", "sender_isa_id", "receiver_isa_id",
     "reference_identifier", "sender_interchange_reference_identifier",
     "sender_group_reference_identifier",
     "sender_transaction_reference_identifier",
     "receiver_interchange_reference_identifier",
     "receiver_group_reference_identifier",
     "receiver_transaction_reference_identifier"}

Documented ==
    { [op |-> "get_transactions_from_poller_bucket", arg |-> "limit",
       key |-> "limit", carrier |-> "query"] }
    \cup { [op |-> "list_relationships", arg |-> a, key |-> a, carrier |-> "query"] :
           a \in {"auto_send", "limit", "prev_cursor", "next_cursor"} }
    \cup { [op |-> "list_transactions", arg |-> a, key |-> CamelCase(a),
            carrier |-> "query"] : a \in ListTransactionsFilters }
    \cup { [op |-> "get_transaction", arg |-> "include_message",
            key |-> "expand", carrier |-> "query"],
           [op |-> "create_acknowledgment", arg |-> "errors",
            key |-> "errors", carrier |-> "body"],
           [op |-> "approve_delivery", arg |-> "note", key |-> "note",
            carrier |-> "body"],
           [op |-> "fail_delivery", arg |-> "note", key |-> "note",
            carrier |-> "body"] }

\* the mapping of the first request that carries optional argument d
Carrier(d) == IF d.carrier = "query" THEN sent[1].params ELSE sent[1].json

Supplied(d) == Called(d.op) /\ Len(sent) >= 1 /\ d.arg \in DOMAIN call.args

----------------------------------------------------------------------------
(* C1: when the response to any of the 16 request-issuing methods has a    *)
(* 4xx/5xx status, the call raises the HTTP error (carrying that response) *)
(* before the body is parsed or any field of it is extracted, and returns  *)
(* no value.                                                               *)
C1_RaiseBeforeParse ==
    (call.op \in RequestOps /\ Failure) =>
        /\ result.kind = "raise"
        /\ result.value = response
        /\ result.evaluated = {}

C1_Witness ==
    /\ Called("list_transactions")
    /\ response.status_code = 404
    /\ result.kind = "raise"

(* C2: an optional argument left at its default or given any falsy value   *)
(* (False, 0, "", [], None) leaves its key out of the outgoing query or    *)
(* JSON-body mapping.                                                      *)
C2_FalsyOmitted ==
    \A d \in Documented :
        (Supplied(d) /\ IsFalsy(call.args[d.arg])) =>
            d.key \notin DOMAIN Carrier(d)

C2_Witness ==
    /\ Called("create_acknowledgment")
    /\ call.args["errors"] = PyList(<<>>)
    /\ Len(sent) = 1
    /\ DOMAIN sent[1].json = {"status"}

(* C3 as stated: every optional argument given a truthy value is carried   *)
(* with exactly that value under its documented key, and the query of      *)
(* list_transactions holds no other key.                                   *)
C3_Original ==
    /\ \A d \in Documented :
          (Supplied(d) /\ ~IsFalsy(call.args[d.arg])) =>
              /\ d.key \in DOMAIN Carrier(d)
              /\ Carrier(d)[d.key] = call.args[d.arg]
    /\ (Called("list_transactions") /\ Len(sent) >= 1) =>
          DOMAIN sent[1].params =
              {CamelCase(a) : a \in {b \in ListTransactionsFilters :
                                        ~IsFalsy(call.args[b])}}

(* C3, amended: as stated for every optional argument but include_message, *)
(* whose truthy value is not carried: the query then holds the fixed       *)
(* string "message" under the key expand.  Distinct list_transactions      *)
(* arguments occupy distinct camelCase keys, and the query holds no key    *)
(* without a truthy argument.                                              *)
C3_TruthyCarried ==
    /\ \A d \in Documented :
          (Supplied(d) /\ ~IsFalsy(call.args[d.arg])) =>
              /\ d.key \in DOMAIN Carrier(d)
              /\ Carrier(d)[d.key] =
                    IF d.arg = "include_message" THEN PyStr("message")
                    ELSE call.args[d.arg]
    /\ (Called("list_transactions") /\ Len(sent) >= 1) =>
          LET truthy == {b \in ListTransactionsFilters : ~IsFalsy(call.args[b])}
          IN  /\ DOMAIN sent[1].params = {CamelCase(a) : a \in truthy}
              /\ Cardinality(DOMAIN sent[1].params) = Cardinality(truthy)

C3_Witness ==
    /\ Called("list_transactions")
    /\ \A a \in ListTransactionsFilters : ~IsFalsy(call.args[a])
    /\ Len(sent) = 1
    /\ Cardinality(DOMAIN sent[1].params) = Cardinality(ListTransactionsFilters)
    /\ sent[1].params["senderIsaId"] = call.args["sender_isa_id"]

(* C4: create_transaction, on a success response, returns exactly the id   *)
(* field of the response body, after one POST to /transactions of a JSON   *)
(* body whose keys are exactly type, stream, message, sender and receiver, *)
(* the stream being the one the client was constructed with.               *)
C4_CreateTransaction ==
    (Called("create_transaction") /\ ~Failure) =>
        /\ result.kind = "return"
        /\ result.value = json(response).id
        /\ Len(sent) = 1
        /\ sent[1].method = "POST"
        /\ sent[1].url = BaseUrl \o "/transactions"
        /\ sent[1].has_json
        /\ DOMAIN sent[1].json = {"type", "stream", "message", "sender", "receiver"}
        /\ sent[1].json["stream"] = ctor.stream

C4_Witness ==
    /\ Called("create_transaction")
    /\ response.status_code = 200
    /\ result = Return(PyStr("tx_123"), {"json", "id"})
    /\ ctor.stream = PyStr("live")
    /\ sent[1].json["stream"] = PyStr("live")

C6_Predicates ==
    /\ Called("is_enabled") =>
          result.value = PyBool(~IsFalsy(stream) /\ ~IsFalsy(orderful_api_key))
    /\ Called("is_live_stream") =>
          result.value = PyBool(stream = PyStr("LIVE"))

(* C7: get_attachment_content, on a success response, returns the raw byte *)
(* payload of the response, not parsed and not transformed, from a single  *)
(* GET to /attachments/{id}/content.                                       *)
C7_AttachmentContent ==
    (Called("get_attachment_content") /\ ~Failure) =>
        /\ result.kind = "return"
        /\ result.value = PyBytes(response.content)
        /\ "json" \notin result.evaluated
        /\ Len(sent) = 1
        /\ sent[1].method = "GET"
        /\ sent[1].url = BaseUrl \o "/attachments/"
                          \o call.args["attachment_id"].val \o "/content"

C7_Witness ==
    /\ Called("get_attachment_content")
    /\ call.args["attachment_id"] = PyStr("att_2")
    /\ response.status_code = 201
    /\ result.kind = "return"
    /\ result.value = PyBytes(Content2)

(* C8: every invocation of a request-issuing method puts exactly one       *)
(* request on the wire, whatever the outcome: a failure is raised without  *)
(* a second request, and a client whose is_enabled() is falsy still sends. *)
C8_OneRequest ==
    call.op \in RequestOps =>
        /\ Len(sent) = 1
        /\ result.kind \in {"return", "raise"}
        /\ Failure => result.kind = "raise"

C8_Witness ==
    /\ call.op \in RequestOps
    /\ IsFalsy(PyAnd(stream, orderful_api_key))
    /\ response.status_code = 503
    /\ result.kind = "raise"
    /\ Len(sent) = 1

(* C9: after any sequence of operations, successful or failing, the stream *)
(* and the api key equal the values given at construction, and the header  *)
(* mappings the client holds are the ones construction derived from them.  *)
C9_ConfigurationFixed ==
    /\ stream = ctor.stream
    /\ orderful_api_key = ctor.orderful_api_key
    /\ api_headers = JsonHeaders(ctor.orderful_api_key)
    /\ client_headers = JsonHeaders(ctor.orderful_api_key)

C9_Witness ==
    /\ converted
    /\ Called("create_transaction")
    /\ result.kind = "raise"
    /\ ctor.stream = PyStr("live")
    /\ stream = PyStr("live")

(* C10: convert_data sends Content-Type = origin_content and               *)
(* Accept = destination_content with the API-key header on its own request *)
(* only: after any sequence of operations, convert_data calls included,    *)
(* every request of another operation carries accept: application/json,    *)
(* content-type: application/json and the API key given at construction.   *)
C10_ConvertHeadersPerCall ==
    /\ (Called("convert_data") /\ Len(sent) >= 1) =>
          /\ sent[1].headers["content-type"] = call.args["origin_content"]
          /\ sent[1].headers["accept"] = call.args["destination_content"]
          /\ sent[1].headers["orderful-api-key"] = ctor.orderful_api_key
    /\ (call.op \in RequestOps \ {"convert_data"} /\ Len(sent) >= 1) =>
          sent[1].headers = JsonHeaders(ctor.orderful_api_key)

C10_Witness ==
    /\ converted
    /\ Called("get_delivery")
    /\ Len(sent) = 1
    /\ sent[1].headers["content-type"] = PyStr("application/json")
    /\ sent[1].headers["orderful-api-key"] = PyStr("key-1")
====
